---- MODULE Spec2Model ----
(***************************************************************************)
(* Model of the tilemap crate: axial hex coordinates (src/hex/axial.rs),   *)
(* the TileMap store (src/map/mod.rs) and the Pathfinder search            *)
(* (src/map/path.rs).  A coordinate is a record [q, r]; a TileMap is a     *)
(* function from the coordinates that hold a tile to the tile; an          *)
(* Option<T> is a sequence of length 0 (None) or 1 (Some).                 *)
(***************************************************************************)
EXTENDS Integers, Sequences, FiniteSets, TLC

VARIABLES map, coords_to_search, searched_coords, path_map, start, end,
          pc, result, reused, op

vars ==
    <<map, coords_to_search, searched_coords, path_map, start, end, pc,
      result, reused, op>>

\* ---------------------------------------------------------------- bounds --

\* The enumerated grids store tiles on the first NumCells coordinates of
\* area_tiles around the origin.
NumCells == 5

\* The corridor grid stores tiles on (0,0) .. (CorridorLen,0): long enough
\* for a total_cost to reach isize::MAX.
CorridorLen == 65

\* The coordinate functions are called on coordinates whose components are
\* in -CoordRange .. CoordRange.
CoordRange == 2

\* area_tiles, ring_tiles and init_area are called with radii up to
\* MaxRadius.
MaxRadius == 3

\* The number of get_next_coords and test_coords calls made on a Pathfinder
\* that insert_node calls have filled.
MaxCalls == 2

\* ----------------------------------------------------- axial coordinates --

AxialCoords(q, r) == [q |-> q, r |-> r]

Add(a, b) == AxialCoords(a.q + b.q, a.r + b.r)

Mul(a, k) == AxialCoords(a.q * k, a.r * k)

\* adjacent_coords with (1, 1) in the place of (1, -1).
AdjacentCoordsSkewed(c) ==
    << Add(c, AxialCoords(1, 0)),
       Add(c, AxialCoords(0, 1)),
       Add(c, AxialCoords(-1, 1)),
       Add(c, AxialCoords(-1, 0)),
       Add(c, AxialCoords(0, -1)),
       Add(c, AxialCoords(1, 1)) >>

AdjacentCoords(c) ==
    << Add(c, AxialCoords(1, 0)),
       Add(c, AxialCoords(0, 1)),
       Add(c, AxialCoords(-1, 1)),
       Add(c, AxialCoords(-1, 0)),
       Add(c, AxialCoords(0, -1)),
       Add(c, AxialCoords(1, -1)) >>

\* The six pushes with the first one walking along (1, 0), away from the
\* ring.
RingStepWrongTurn(c, radius, i) ==
    << Add(Add(c, Mul(AxialCoords(1, -1), radius)), Mul(AxialCoords(1, 0), i)),
       Add(Add(c, Mul(AxialCoords(1, 0), radius)), Mul(AxialCoords(-1, 1), i)),
       Add(Add(c, Mul(AxialCoords(0, 1), radius)), Mul(AxialCoords(-1, 0), i)),
       Add(Add(c, Mul(AxialCoords(-1, 1), radius)), Mul(AxialCoords(0, -1), i)),
       Add(Add(c, Mul(AxialCoords(-1, 0), radius)), Mul(AxialCoords(1, -1), i)),
       Add(Add(c, Mul(AxialCoords(0, -1), radius)), Mul(AxialCoords(1, 0), i)) >>

\* The six pushes of one iteration i of the loop of ring_tiles.
RingStep(c, radius, i) ==
    << Add(Add(c, Mul(AxialCoords(1, -1), radius)), Mul(AxialCoords(0, 1), i)),
       Add(Add(c, Mul(AxialCoords(1, 0), radius)), Mul(AxialCoords(-1, 1), i)),
       Add(Add(c, Mul(AxialCoords(0, 1), radius)), Mul(AxialCoords(-1, 0), i)),
       Add(Add(c, Mul(AxialCoords(-1, 1), radius)), Mul(AxialCoords(0, -1), i)),
       Add(Add(c, Mul(AxialCoords(-1, 0), radius)), Mul(AxialCoords(1, -1), i)),
       Add(Add(c, Mul(AxialCoords(0, -1), radius)), Mul(AxialCoords(1, 0), i)) >>

RECURSIVE RingLoop(_, _, _)
\* The pushes of iterations i .. radius-1 of the loop of ring_tiles.
RingLoop(c, radius, i) ==
    IF i >= radius THEN << >>
    ELSE RingStep(c, radius, i) \o RingLoop(c, radius, i + 1)

RingTiles(c, radius) ==
    IF radius = 0 THEN << AxialCoords(c.q, c.r) >>
    ELSE IF radius < 0 THEN << >>
    ELSE RingLoop(c, radius, 0)

RECURSIVE AreaLoop(_, _, _)
\* The appends of iterations n .. radius of the loop of area_tiles.
AreaLoop(c, radius, n) ==
    IF n >= radius + 1 THEN << >>
    ELSE RingTiles(c, n) \o AreaLoop(c, radius, n + 1)

\* area_tiles with the loop started at ring 1: the center is left out.
AreaTilesFromRingOne(c, radius) == AreaLoop(c, radius, 1)

AreaTiles(c, radius) == AreaLoop(c, radius, 0)

\* ------------------------------------------------------ cube coordinates --

CubeCoords(q, r, s) == [q |-> q, r |-> r, s |-> s]

IsValid(c) == c.s = (0 - c.q) - c.r

CubeAdd(a, b) == CubeCoords(a.q + b.q, a.r + b.r, a.s + b.s)

CubeSub(a, b) == CubeCoords(a.q - b.q, a.r - b.r, a.s - b.s)

CubeAdjacentCoords(c) ==
    << CubeAdd(c, CubeCoords(1, -1, 0)),
       CubeAdd(c, CubeCoords(1, 0, -1)),
       CubeAdd(c, CubeCoords(0, 1, -1)),
       CubeAdd(c, CubeCoords(-1, 1, 0)),
       CubeAdd(c, CubeCoords(-1, 0, 1)),
       CubeAdd(c, CubeCoords(0, -1, 1)) >>

\* isize::abs
Abs(x) == IF x < 0 THEN 0 - x ELSE x

\* a / b on isize: the quotient rounded toward zero.
TruncDiv(a, b) ==
    IF (a < 0) = (b < 0) THEN Abs(a) \div Abs(b) ELSE 0 - (Abs(a) \div Abs(b))

\* CubeCoords::distance without the division by 2.
CubeDistanceNotHalved(a, b) ==
    LET vec == CubeSub(a, b)
        q == Abs(vec.q)
        r == Abs(vec.r)
        s == Abs(vec.s)
    IN  q + r + s

\* CubeCoords::distance
CubeDistance(a, b) ==
    LET vec == CubeSub(a, b)
        q == Abs(vec.q)
        r == Abs(vec.r)
        s == Abs(vec.s)
    IN  TruncDiv(q + r + s, 2)

\* From<AxialCoords> for CubeCoords with s = q - r.
CubeFromAxialKeepsQ(c) == CubeCoords(c.q, c.r, c.q - c.r)

\* From<AxialCoords> for CubeCoords
CubeFromAxial(c) == CubeCoords(c.q, c.r, (0 - c.q) - c.r)

\* From<CubeCoords> for AxialCoords
AxialFromCube(c) == AxialCoords(c.q, c.r)

\* AxialCoords::distance
Distance(a, b) == CubeDistance(CubeFromAxial(a), CubeFromAxial(b))

\* ---------------------------------------- offset and doubled coordinates --

OffsetCoords(q, r) == [q |-> q, r |-> r]

OffsetAdd(a, b) == OffsetCoords(a.q + b.q, a.r + b.r)

OffsetAdjacentCoords(c) ==
    << OffsetAdd(c, OffsetCoords(-1, -1)),
       OffsetAdd(c, OffsetCoords(0, -1)),
       OffsetAdd(c, OffsetCoords(1, 0)),
       OffsetAdd(c, OffsetCoords(0, 1)),
       OffsetAdd(c, OffsetCoords(-1, 1)),
       OffsetAdd(c, OffsetCoords(-1, 0)) >>

\* x & 1 on a two's-complement integer: the lowest bit, 1 for every odd x,
\* negative or not.
BitAndOne(x) == x % 2

\* From<OffsetCoords> for AxialCoords with c.r / 2 in place of
\* (c.r - (c.r & 1)) / 2.
AxialFromOffsetHalfRow(c) == AxialCoords(c.q - TruncDiv(c.r, 2), c.r)

\* From<OffsetCoords> for AxialCoords
AxialFromOffset(c) ==
    LET q == c.q - TruncDiv(c.r - BitAndOne(c.r), 2)
        r == c.r
    IN  AxialCoords(q, r)

\* From<AxialCoords<T>> for OffsetCoords<T>
OffsetFromAxial(c) ==
    LET q == c.q + TruncDiv(c.r - BitAndOne(c.r), 2)
        r == c.r
    IN  OffsetCoords(q, r)

DoubledCoords(q, r) == [q |-> q, r |-> r]

DoubledAdd(a, b) == DoubledCoords(a.q + b.q, a.r + b.r)

DoubledAdjacentCoords(c) ==
    << DoubledAdd(c, DoubledCoords(-1, -1)),
       DoubledAdd(c, DoubledCoords(1, -1)),
       DoubledAdd(c, DoubledCoords(2, 0)),
       DoubledAdd(c, DoubledCoords(1, 1)),
       DoubledAdd(c, DoubledCoords(-1, 1)),
       DoubledAdd(c, DoubledCoords(-2, 0)) >>

\* ---------------------------------------------------- square coordinates --

SquareCoords(x, y) == [x |-> x, y |-> y]

SquareAdd(a, b) == SquareCoords(a.x + b.x, a.y + b.y)

SquareAdjacentCoords(c) ==
    << SquareAdd(c, SquareCoords(-1, -1)),
       SquareAdd(c, SquareCoords(-1, 0)),
       SquareAdd(c, SquareCoords(-1, 1)),
       SquareAdd(c, SquareCoords(0, -1)),
       SquareAdd(c, SquareCoords(0, 1)),
       SquareAdd(c, SquareCoords(1, -1)),
       SquareAdd(c, SquareCoords(1, 0)),
       SquareAdd(c, SquareCoords(1, 1)) >>

\* ------------------------------------------------------------------ tiles --

\* Tile::pathfind_cost: the default of the trait (EmptyTile) and the
\* override of CostTestTile.
PathfindCost(tile) ==
    CASE tile = "Ground" -> 4
      [] tile = "Road" -> 1
      [] OTHER -> 1

\* ---------------------------------------------------------------- TileMap --

None == << >>

Some(x) == << x >>

IsSome(o) == Len(o) = 1

Unwrap(o) == o[1]

\* TileMap::new
NewTileMap == [c \in {} |-> None]

ContainsCoords(m, coord) == coord \in DOMAIN m

GetTile(m, coord) == IF coord \in DOMAIN m THEN Some(m[coord]) ELSE None

\* What insert_tile returns: the tile stored at coord before the call.
InsertTileReturn(m, coord) == GetTile(m, coord)

\* insert_tile that leaves a coordinate that holds a tile as it is.
InsertTileKeepsOld(m, coord, tile) == m @@ (coord :> tile)

\* The map after insert_tile.
InsertTile(m, coord, tile) == (coord :> tile) @@ m

MapLen(m) == Cardinality(DOMAIN m)

RECURSIVE InsertAll(_, _, _, _)
\* The loop of init_area from index i of coords_to_add on.
InsertAll(m, coords, tile, i) ==
    IF i > Len(coords) THEN m
    ELSE InsertAll(InsertTile(m, coords[i], tile), coords, tile, i + 1)

InitArea(m, center, tile, radius) ==
    InsertAll(m, AreaTiles(center, radius), tile, 1)

\* ------------------------------------------------------------------ isize --

\* An isize is its 64-bit two's-complement pattern, held as four 16-bit
\* limbs, the least significant first.
LimbBase == 2 ^ 16

\* The isize of an integer literal of the source.
Isize(n) ==
    << n % LimbBase,
       (n \div LimbBase) % LimbBase,
       IF n < 0 THEN LimbBase - 1 ELSE 0,
       IF n < 0 THEN LimbBase - 1 ELSE 0 >>

IsNegative(a) == a[4] >= LimbBase \div 2

\* a + b as a build without overflow checks computes it: modulo 2^64.
IsizeAdd(a, b) ==
    LET s1 == a[1] + b[1]
        s2 == a[2] + b[2] + (s1 \div LimbBase)
        s3 == a[3] + b[3] + (s2 \div LimbBase)
        s4 == a[4] + b[4] + (s3 \div LimbBase)
    IN  << s1 % LimbBase, s2 % LimbBase, s3 % LimbBase, s4 % LimbBase >>

\* a + b leaves the range of isize: a build with overflow checks panics
\* with "attempt to add with overflow".
AddOverflows(a, b) ==
    /\ IsNegative(a) = IsNegative(b)
    /\ IsNegative(IsizeAdd(a, b)) # IsNegative(a)

\* a < b on isize.
IsizeLess(a, b) ==
    IF IsNegative(a) # IsNegative(b) THEN IsNegative(a)
    ELSE \E i \in 1..4 : a[i] < b[i] /\ \A j \in (i + 1)..4 : a[j] = b[j]

\* ------------------------------------------------------------- Pathfinder --

PathfindNode(total_cost, from_coords) ==
    [total_cost |-> total_cost, from_coords |-> from_coords]

\* The three fields of a Pathfinder as one value.
Pathfinder(to_search, searched, nodes) ==
    [coords_to_search |-> to_search, searched_coords |-> searched, path_map |-> nodes]

\* Pathfinder::new
NewPathfinder == Pathfinder({}, {}, NewTileMap)

GetNode(pf, coords) == GetTile(pf.path_map, coords)

\* insert_node without the insert into coords_to_search.
InsertNodeNotQueued(pf, coords, node) ==
    [pf EXCEPT !.path_map = InsertTile(pf.path_map, coords, node)]

\* insert_node: stores the node and adds the coordinate to coords_to_search.
InsertNode(pf, coords, node) ==
    [pf EXCEPT !.path_map = InsertTile(pf.path_map, coords, node),
               !.coords_to_search = pf.coords_to_search \cup {coords}]

\* The scan with the comparison turned round: it keeps the dearest.
BestCoordsDearest(pf) ==
    {c \in pf.coords_to_search :
        \A d \in pf.coords_to_search :
            ~IsizeLess(pf.path_map[c].total_cost, pf.path_map[d].total_cost)}

\* The values best_coords can have after the scan of get_next_coords.  The
\* scan visits coords_to_search in the hash set's iteration order and
\* replaces best_coords only by a strictly cheaper coordinate, so it ends
\* with the first minimum-cost coordinate of that order: any coordinate
\* of minimum total_cost, for some order.
BestCoords(pf) ==
    {c \in pf.coords_to_search :
        \A d \in pf.coords_to_search :
            ~IsizeLess(pf.path_map[d].total_cost, pf.path_map[c].total_cost)}

\* The end of get_next_coords without the remove.
MoveToSearchedStillQueued(pf, c) ==
    [pf EXCEPT !.searched_coords = pf.searched_coords \cup {c}]

\* The end of get_next_coords: best_coords = Some(c) leaves coords_to_search
\* and enters searched_coords.
MoveToSearched(pf, c) ==
    [pf EXCEPT !.coords_to_search = pf.coords_to_search \ {c},
               !.searched_coords = pf.searched_coords \cup {c}]

\* test_coords that also overwrites a node of the same total cost.
TestCoordsNotStrict(pf, dest, src, cost_from_src) ==
    LET src_node == Unwrap(GetNode(pf, src))
        total_cost_from_src == IsizeAdd(src_node.total_cost, cost_from_src)
    IN  IF IsSome(GetNode(pf, dest))
        THEN IF ~IsizeLess(Unwrap(GetNode(pf, dest)).total_cost, total_cost_from_src)
             THEN [pf EXCEPT !.path_map[dest] =
                                PathfindNode(total_cost_from_src, Some(src))]
             ELSE pf
        ELSE InsertNode(pf, dest, PathfindNode(total_cost_from_src, Some(src)))

\* test_coords as a build without overflow checks runs it (with overflow
\* checks the call panics where ExpandOverflows holds).
TestCoords(pf, dest, src, cost_from_src) ==
    LET src_node == Unwrap(GetNode(pf, src))
        total_cost_from_src == IsizeAdd(src_node.total_cost, cost_from_src)
    IN  IF IsSome(GetNode(pf, dest))
        THEN IF IsizeLess(total_cost_from_src, Unwrap(GetNode(pf, dest)).total_cost)
             THEN [pf EXCEPT !.path_map[dest] =
                                PathfindNode(total_cost_from_src, Some(src))]
             ELSE pf
        ELSE InsertNode(pf, dest, PathfindNode(total_cost_from_src, Some(src)))

\* The loop body with the tile looked up at test_coords, not at the
\* adjacent coordinate.
VisitAdjacentTileOfSource(pf, m, adjacent_coord, test_coords, cost_from_test_coords) ==
    IF IsSome(GetTile(m, test_coords))
    THEN TestCoords(pf, adjacent_coord, test_coords,
                    IsizeAdd(cost_from_test_coords, Isize(1)))
    ELSE pf

\* The body of the for loop of find_path for one adjacent coordinate.
VisitAdjacent(pf, m, adjacent_coord, test_coords, cost_from_test_coords) ==
    IF IsSome(GetTile(m, adjacent_coord))
    THEN TestCoords(pf, adjacent_coord, test_coords,
                    IsizeAdd(cost_from_test_coords, Isize(1)))
    ELSE pf

RECURSIVE VisitFrom(_, _, _, _, _, _)
\* The for loop of find_path from index i of adjacent_coords on.
VisitFrom(pf, m, adjacent_coords, test_coords, cost_from_test_coords, i) ==
    IF i > Len(adjacent_coords) THEN pf
    ELSE VisitFrom(VisitAdjacent(pf, m, adjacent_coords[i], test_coords,
                                 cost_from_test_coords),
                   m, adjacent_coords, test_coords, cost_from_test_coords, i + 1)

\* The loop iteration with cost_from_test_coords taken as 0: the cost passed
\* to test_coords is 1.
ExpandUnitStep(pf, m, test_coords) ==
    VisitFrom(pf, m, AdjacentCoords(test_coords), test_coords, Isize(0), 1)

\* One iteration of the while loop of find_path that does not return:
\* test_coords was selected and is not the end.
Expand(pf, m, test_coords) ==
    LET cost_from_test_coords == Unwrap(GetNode(pf, test_coords)).total_cost
    IN  VisitFrom(pf, m, AdjacentCoords(test_coords), test_coords,
                  cost_from_test_coords, 1)

\* The selected coordinate has an adjacent coordinate with a tile, and one of
\* the two sums made for it, cost_from_test_coords + 1 in find_path and
\* src_node.total_cost + cost_from_src in test_coords, leaves the range of
\* isize.
ExpandOverflows(pf, m, test_coords) ==
    LET cost_from_test_coords == Unwrap(GetNode(pf, test_coords)).total_cost
    IN  /\ \E i \in 1..Len(AdjacentCoords(test_coords)) :
                IsSome(GetTile(m, AdjacentCoords(test_coords)[i]))
        /\ \/ AddOverflows(cost_from_test_coords, Isize(1))
           \/ AddOverflows(cost_from_test_coords,
                           IsizeAdd(cost_from_test_coords, Isize(1)))

RECURSIVE NeverEnds(_, _, _)
\* The while loop of current_path_from is still running after fuel more
\* iterations.
NeverEnds(pf, node, fuel) ==
    IF ~IsSome(node.from_coords) THEN FALSE
    ELSE IF fuel = 0 THEN TRUE
    ELSE NeverEnds(pf, Unwrap(GetNode(pf, Unwrap(node.from_coords))), fuel - 1)

\* The from_coords followed from coords come back to a node they left: the
\* while loop of current_path_from never ends (a chain that ends has fewer
\* links than there are nodes).
PathNeverEnds(pf, coords) ==
    NeverEnds(pf, Unwrap(GetNode(pf, coords)), MapLen(pf.path_map))

RECURSIVE FollowFrom(_, _, _)
\* The while loop of current_path_from.
FollowFrom(pf, node, path) ==
    IF IsSome(node.from_coords)
    THEN FollowFrom(pf, Unwrap(GetNode(pf, Unwrap(node.from_coords))),
                    Append(path, Unwrap(node.from_coords)))
    ELSE path

CurrentPathFrom(pf, coords) ==
    FollowFrom(pf, Unwrap(GetNode(pf, coords)), << coords >>)

RECURSIVE SearchResults(_, _, _, _)
\* What the while loop of find_path can return when it is entered with one
\* of the Pathfinders pfs, in a build without overflow checks: every scan of
\* get_next_coords may end with any coordinate of minimum total_cost (the
\* hash set iterates in any order), so each round takes every Pathfinder
\* through every selection it allows.  results holds what the rounds before
\* returned.
SearchResults(pfs, m, e, results) ==
    IF pfs = {} THEN results
    ELSE LET selections == UNION {{<<pf, c>> : c \in BestCoords(pf)} : pf \in pfs}
             returned ==
                {Some(CurrentPathFrom(MoveToSearched(sel[1], sel[2]), e)) :
                    sel \in {x \in selections :
                                x[2] = e /\ ~PathNeverEnds(x[1], e)}}
             exhausted ==
                IF \E pf \in pfs : pf.coords_to_search = {} THEN {None} ELSE {}
             expanded ==
                {Expand(MoveToSearched(sel[1], sel[2]), m, sel[2]) :
                    sel \in {x \in selections : x[2] # e}}
         IN  SearchResults(expanded, m, e, results \cup returned \cup exhausted)

\* What find_path(m, s, e) can return on a Pathfinder that has just been
\* constructed.
FindPathResults(m, s, e) ==
    SearchResults({Pathfinder({s}, {}, InsertTile(NewTileMap, s,
                                                  PathfindNode(Isize(0), None)))},
                  m, e, {})

\* ------------------------------------------------------------ the inputs --

Origin == AxialCoords(0, 0)

Cells == {AreaTiles(Origin, NumCells)[i] : i \in 1..NumCells}

TileKinds == {"Ground", "Road"}

\* Every grid that stores Ground or Road tiles on some of the cells.
SmallMaps == UNION {[S -> TileKinds] : S \in SUBSET Cells}

\* The map of the test equal_cost: 19 tiles of the default cost.
EqualCostMap == InitArea(NewTileMap, AxialCoords(0, 0), "EmptyTile", 2)

EqualCostStart == AxialCoords(-2, 1)

EqualCostEnd == AxialCoords(1, -1)

\* The road of the test variable_cost, in the order it is inserted.
RoadCoords ==
    << AxialCoords(-2, 2), AxialCoords(-2, 1), AxialCoords(-1, 0),
       AxialCoords(0, 0), AxialCoords(0, 1), AxialCoords(1, 1),
       AxialCoords(2, 0), AxialCoords(2, -1), AxialCoords(2, -2) >>

\* The map of the test variable_cost: radius 3 of Ground, then the Road.
VariableCostMap ==
    InsertAll(InitArea(NewTileMap, AxialCoords(0, 0), "Ground", 3),
              RoadCoords, "Road", 1)

VariableCostStart == AxialCoords(-2, 2)

\* A corridor of CorridorLen + 1 tiles of the default cost along the q axis.
CorridorMap == [c \in {AxialCoords(i, 0) : i \in 0..CorridorLen} |-> "EmptyTile"]

CorridorEnd == AxialCoords(CorridorLen, 0)

\* A coordinate outside the corridor.
OffCorridorEnd == AxialCoords(0, 2)

\* A coordinate without a tile, adjacent to the first tile of the corridor.
OffCorridorStart == AxialCoords(-1, 0)

Maps == SmallMaps \cup {EqualCostMap, CorridorMap}

\* The fourth tile of the road of variable_cost: two tiles from the start
\* of the road over the ground tile (-1,1), three tiles along the road.
RoadDetourEnd == RoadCoords[4]

\* The start/end pairs find_path is called with on the map m: the call of
\* the test on the map of equal_cost, a call between two tiles of the road
\* on the map of variable_cost, every pair of cells on an enumerated grid.
Calls(m) ==
    IF m = EqualCostMap THEN {<<EqualCostStart, EqualCostEnd>>}
    ELSE IF m = VariableCostMap
         THEN {<<VariableCostStart, RoadDetourEnd>>}
    ELSE IF m = CorridorMap
         THEN {<<Origin, CorridorEnd>>, <<Origin, OffCorridorEnd>>,
               <<OffCorridorStart, CorridorEnd>>}
         ELSE Cells \X Cells

\* ------------------------------------------------------------- the system --

ThePathfinder == Pathfinder(coords_to_search, searched_coords, path_map)

SetPathfinder(pf) ==
    /\ coords_to_search' = pf.coords_to_search
    /\ searched_coords' = pf.searched_coords
    /\ path_map' = pf.path_map

\* op holds the last call made on a TileMap or on a coordinate, with its
\* arguments and what it returned; no such call has been made.
NoCall == [name |-> "none"]

\* The state after TileMap and Pathfinder are constructed and the map is
\* filled.
Constructed ==
    /\ coords_to_search = NewPathfinder.coords_to_search
    /\ searched_coords = NewPathfinder.searched_coords
    /\ path_map = NewPathfinder.path_map
    /\ start = Origin
    /\ end = Origin
    /\ pc = "idle"
    /\ result = None
    /\ reused = FALSE
    /\ op = NoCall

Init ==
    /\ map \in Maps
    /\ Constructed

\* The map of variable_cost, or the corridor.
InitVariableCost ==
    /\ map \in {VariableCostMap, CorridorMap}
    /\ Constructed

\* find_path without the two clear() and the new path_map: the start is
\* seeded into what the previous call left.
FindPathCallKeepsState(s, e) ==
    /\ pc \in {"idle", "done"}
    /\ SetPathfinder(InsertNode(ThePathfinder, s, PathfindNode(Isize(0), None)))
    /\ start' = s
    /\ end' = e
    /\ pc' = "searching"
    /\ result' = None
    /\ reused' = (pc = "done")
    /\ UNCHANGED <<map, op>>

\* find_path is called: the state of the previous call is dropped and the
\* start is seeded.  reused records that the Pathfinder had run a call
\* before this one.
FindPathCall(s, e) ==
    /\ pc \in {"idle", "done"}
    /\ SetPathfinder(Pathfinder({s}, {}, InsertTile(NewTileMap, s, PathfindNode(Isize(0), None))))
    /\ start' = s
    /\ end' = e
    /\ pc' = "searching"
    /\ result' = None
    /\ reused' = (pc = "done")
    /\ UNCHANGED <<map, op>>

\* The end test made after the adjacent coordinates are visited.
LoopReturnPathAfterVisit ==
    /\ pc = "searching"
    /\ \E c \in BestCoords(ThePathfinder) :
        /\ c = end
        /\ ~PathNeverEnds(ThePathfinder, end)
        /\ SetPathfinder(Expand(MoveToSearched(ThePathfinder, c), map, c))
        /\ result' = Some(CurrentPathFrom(MoveToSearched(ThePathfinder, c), end))
    /\ pc' = "done"
    /\ UNCHANGED <<map, start, end, reused, op>>

\* A loop iteration whose selected coordinate is the end: return the path.
LoopReturnPath ==
    /\ pc = "searching"
    /\ \E c \in BestCoords(ThePathfinder) :
        /\ c = end
        /\ ~PathNeverEnds(ThePathfinder, end)
        /\ SetPathfinder(MoveToSearched(ThePathfinder, c))
        /\ result' = Some(CurrentPathFrom(MoveToSearched(ThePathfinder, c), end))
    /\ pc' = "done"
    /\ UNCHANGED <<map, start, end, reused, op>>

\* A loop iteration whose selected coordinate is the end, where the
\* from_coords followed from the end form a cycle: current_path_from pushes
\* coordinates for ever and find_path does not return.
LoopReturnNeverEnds ==
    /\ pc = "searching"
    /\ \E c \in BestCoords(ThePathfinder) :
        /\ c = end
        /\ PathNeverEnds(ThePathfinder, end)
        /\ SetPathfinder(MoveToSearched(ThePathfinder, c))
    /\ pc' = "looping"
    /\ UNCHANGED <<map, start, end, result, reused, op>>

\* A loop iteration whose selected coordinate is not the end: visit the
\* adjacent coordinates.
LoopExpand ==
    /\ pc = "searching"
    /\ \E c \in BestCoords(ThePathfinder) :
        /\ c # end
        /\ SetPathfinder(Expand(MoveToSearched(ThePathfinder, c), map, c))
    /\ UNCHANGED <<map, start, end, pc, result, reused, op>>

\* A loop iteration whose selected coordinate is not the end, in a build
\* with overflow checks (the default of debug builds), where a sum
\* overflows: the thread panics at the first adjacent coordinate that holds
\* a tile.  A build without overflow checks takes LoopExpand instead.
LoopPanic ==
    /\ pc = "searching"
    /\ \E c \in BestCoords(ThePathfinder) :
        /\ c # end
        /\ ExpandOverflows(ThePathfinder, map, c)
        /\ SetPathfinder(MoveToSearched(ThePathfinder, c))
    /\ pc' = "panicked"
    /\ UNCHANGED <<map, start, end, result, reused, op>>

\* get_next_coords finds coords_to_search empty: the loop ends, None.
LoopExhausted ==
    /\ pc = "searching"
    /\ coords_to_search = {}
    /\ result' = None
    /\ pc' = "done"
    /\ UNCHANGED <<map, coords_to_search, searched_coords, path_map, start, end,
                   reused, op>>

Next ==
    \/ \E call \in Calls(map) : FindPathCall(call[1], call[2])
    \/ LoopReturnPath
    \/ LoopReturnNeverEnds
    \/ LoopExpand
    \/ LoopPanic
    \/ LoopExhausted

Spec == Init /\ [][Next]_vars

SpecVariableCost == InitVariableCost /\ [][Next]_vars

\* An enumerated grid or the corridor: the maps small enough for a claim to
\* run a second search in every state.
InitReuse ==
    /\ map \in SmallMaps \cup {CorridorMap}
    /\ Constructed

SpecReuse == InitReuse /\ [][Next]_vars

\* ---------------------------------------------------- calls on a TileMap --

\* A TileMap that has just been constructed.
InitTileMap ==
    /\ map = NewTileMap
    /\ Constructed

\* insert_tile(coord, tile) on the map.
InsertTileCall(coord, tile) ==
    /\ map' = InsertTile(map, coord, tile)
    /\ op' = [name |-> "insert_tile", coord |-> coord, tile |-> tile, before |-> map,
              returned |-> InsertTileReturn(map, coord)]
    /\ UNCHANGED <<coords_to_search, searched_coords, path_map, start, end, pc,
                   result, reused>>

NextTileMap == \E coord \in Cells, tile \in TileKinds : InsertTileCall(coord, tile)

SpecTileMap == InitTileMap /\ [][NextTileMap]_vars

\* ------------------------------------------------- calls on coordinates --

Range == (0 - CoordRange)..CoordRange

AxialInputs == {AxialCoords(q, r) : q \in Range, r \in Range}

CubeInputs == {CubeCoords(q, r, s) : q \in Range, r \in Range, s \in Range}

OffsetInputs == {OffsetCoords(q, r) : q \in Range, r \in Range}

DoubledInputs == {DoubledCoords(q, r) : q \in Range, r \in Range}

SquareInputs == {SquareCoords(x, y) : x \in Range, y \in Range}

\* The coordinates of a coordinate system that the functions are called on.
Inputs(system) ==
    CASE system = "axial" -> AxialInputs
      [] system = "cube" -> CubeInputs
      [] system = "offset" -> OffsetInputs
      [] system = "doubled" -> DoubledInputs
      [] system = "square" -> SquareInputs

Systems == {"axial", "cube", "offset", "doubled", "square"}

\* TileCoords::adjacent_coords of the coordinate system.
AdjacentOf(system, c) ==
    CASE system = "axial" -> AdjacentCoords(c)
      [] system = "cube" -> CubeAdjacentCoords(c)
      [] system = "offset" -> OffsetAdjacentCoords(c)
      [] system = "doubled" -> DoubledAdjacentCoords(c)
      [] system = "square" -> SquareAdjacentCoords(c)

\* TileCoords::distance of the coordinate system.
DistanceOf(system, a, b) ==
    CASE system = "axial" -> Distance(a, b)
      [] system = "cube" -> CubeDistance(a, b)

\* From: the conversion of the coordinate c of system to the coordinate
\* system to.
ConvertTo(system, to, c) ==
    CASE system = "offset" /\ to = "axial" -> AxialFromOffset(c)
      [] system = "axial" /\ to = "offset" -> OffsetFromAxial(c)
      [] system = "axial" /\ to = "cube" -> CubeFromAxial(c)
      [] system = "cube" /\ to = "axial" -> AxialFromCube(c)

\* The calls made on coordinates, with their arguments.
CoordCalls ==
    {[name |-> "area_tiles", coords |-> c, radius |-> radius] :
        c \in AxialInputs, radius \in 0..MaxRadius}
    \cup {[name |-> "ring_tiles", coords |-> c, radius |-> radius] :
            c \in AxialInputs, radius \in (0 - 1)..MaxRadius}
    \cup UNION {{[name |-> "adjacent_coords", system |-> system, coords |-> c] :
                    c \in Inputs(system)} : system \in Systems}
    \cup {[name |-> "distance", system |-> "axial", coords |-> a, other |-> b] :
            a \in AxialInputs, b \in AxialInputs}
    \cup {[name |-> "distance", system |-> "cube", coords |-> a, other |-> b] :
            a \in {c \in CubeInputs : IsValid(c)}, b \in {c \in CubeInputs : IsValid(c)}}
    \cup {[name |-> "from", system |-> "offset", to |-> "axial", coords |-> c] :
            c \in OffsetInputs}
    \cup {[name |-> "from", system |-> "axial", to |-> "offset", coords |-> c] :
            c \in AxialInputs}
    \cup {[name |-> "from", system |-> "axial", to |-> "cube", coords |-> c] :
            c \in AxialInputs}
    \cup {[name |-> "from", system |-> "cube", to |-> "axial", coords |-> c] :
            c \in CubeInputs}
    \cup {[name |-> "sub", system |-> "cube", coords |-> a, other |-> b] :
            a \in {c \in CubeInputs : IsValid(c)}, b \in {c \in CubeInputs : IsValid(c)}}

\* An empty HexMap and the center that init_area is going to be called
\* with; radius is the radius of the last init_area call.
HexMaps ==
    {[name |-> "init_area", coords |-> c, radius |-> 0 - 1, before |-> NewTileMap,
      after |-> NewTileMap] : c \in AxialInputs}

\* The call op has not been made yet.
Pending == op.name # "init_area" /\ "returned" \notin DOMAIN op

\* A call with its arguments chosen, or an empty HexMap.
InitCoords ==
    /\ map = NewTileMap
    /\ coords_to_search = NewPathfinder.coords_to_search
    /\ searched_coords = NewPathfinder.searched_coords
    /\ path_map = NewPathfinder.path_map
    /\ start = Origin
    /\ end = Origin
    /\ pc = "idle"
    /\ result = None
    /\ reused = FALSE
    /\ op \in CoordCalls \cup HexMaps

AreaTilesCall ==
    /\ Pending
    /\ op.name = "area_tiles"
    /\ op' = [name |-> op.name, coords |-> op.coords, radius |-> op.radius,
              returned |-> AreaTiles(op.coords, op.radius)]
    /\ UNCHANGED <<map, coords_to_search, searched_coords, path_map, start, end,
                   pc, result, reused>>

RingTilesCall ==
    /\ Pending
    /\ op.name = "ring_tiles"
    /\ op' = [name |-> op.name, coords |-> op.coords, radius |-> op.radius,
              returned |-> RingTiles(op.coords, op.radius)]
    /\ UNCHANGED <<map, coords_to_search, searched_coords, path_map, start, end,
                   pc, result, reused>>

AdjacentCoordsCall ==
    /\ Pending
    /\ op.name = "adjacent_coords"
    /\ op' = [name |-> op.name, system |-> op.system, coords |-> op.coords,
              returned |-> AdjacentOf(op.system, op.coords)]
    /\ UNCHANGED <<map, coords_to_search, searched_coords, path_map, start, end,
                   pc, result, reused>>

DistanceCall ==
    /\ Pending
    /\ op.name = "distance"
    /\ op' = [name |-> op.name, system |-> op.system, coords |-> op.coords,
              other |-> op.other,
              returned |-> DistanceOf(op.system, op.coords, op.other)]
    /\ UNCHANGED <<map, coords_to_search, searched_coords, path_map, start, end,
                   pc, result, reused>>

FromCall ==
    /\ Pending
    /\ op.name = "from"
    /\ op' = [name |-> op.name, system |-> op.system, to |-> op.to, coords |-> op.coords,
              returned |-> ConvertTo(op.system, op.to, op.coords)]
    /\ UNCHANGED <<map, coords_to_search, searched_coords, path_map, start, end,
                   pc, result, reused>>

\* a - b on two cube coordinates.
SubCall ==
    /\ Pending
    /\ op.name = "sub"
    /\ op' = [name |-> op.name, system |-> op.system, coords |-> op.coords,
              other |-> op.other, returned |-> CubeSub(op.coords, op.other)]
    /\ UNCHANGED <<map, coords_to_search, searched_coords, path_map, start, end,
                   pc, result, reused>>

\* init_area(center, tile, radius) on the HexMap: on the empty one, or again
\* around the same center with a larger radius.
InitAreaCall(radius) ==
    /\ op.name = "init_area"
    /\ radius > op.radius
    /\ op' = [name |-> op.name, coords |-> op.coords, radius |-> radius,
              before |-> op.after,
              after |-> InitArea(op.after, op.coords, "EmptyTile", radius)]
    /\ UNCHANGED <<map, coords_to_search, searched_coords, path_map, start, end,
                   pc, result, reused>>

NextCall ==
    \/ AreaTilesCall
    \/ RingTilesCall
    \/ AdjacentCoordsCall
    \/ DistanceCall
    \/ FromCall
    \/ SubCall
    \/ \E radius \in 0..MaxRadius : InitAreaCall(radius)

SpecCoords == InitCoords /\ [][NextCall]_vars

\* --------------------------------------------------- calls on a Pathfinder --

\* The coordinates of the nodes: the four of the tests path_from_coords and
\* test_coords less high_cost_coords.
NodeCoords == {AxialCoords(0, 0), AxialCoords(1, 0), AxialCoords(1, 1)}

\* The total_cost of the nodes that insert_node is called with.
NodeCosts == {0, 1, 3}

\* The cost_from_src that test_coords is called with.
StepCosts == {1, 2}

\* The number of get_next_coords and test_coords calls made so far.
CallCount == IF "calls" \in DOMAIN op THEN op.calls ELSE 0

\* A Pathfinder that has just been constructed.
InitPathfinder ==
    /\ map = NewTileMap
    /\ Constructed

\* insert_node is called, as the tests call it to fill a Pathfinder, with a
\* node for a coordinate that has none.
InsertNodeCall(coords, node) ==
    /\ pc = "idle"
    /\ op.name \in {"none", "insert_node"}
    /\ coords \notin DOMAIN path_map
    /\ SetPathfinder(InsertNode(ThePathfinder, coords, node))
    /\ op' = [name |-> "insert_node", coords |-> coords, node |-> node]
    /\ UNCHANGED <<map, start, end, pc, result, reused>>

\* get_next_coords is called.
GetNextCoordsCall ==
    /\ pc = "idle"
    /\ CallCount < MaxCalls
    /\ \/ /\ coords_to_search = {}
          /\ op' = [name |-> "get_next_coords", calls |-> CallCount + 1,
                    before |-> ThePathfinder, returned |-> None]
          /\ UNCHANGED <<coords_to_search, searched_coords, path_map>>
       \/ \E c \in BestCoords(ThePathfinder) :
          /\ SetPathfinder(MoveToSearched(ThePathfinder, c))
          /\ op' = [name |-> "get_next_coords", calls |-> CallCount + 1,
                    before |-> ThePathfinder, returned |-> Some(c)]
    /\ UNCHANGED <<map, start, end, pc, result, reused>>

\* test_coords is called with a source that has a node.
TestCoordsCall(dest, src, cost_from_src) ==
    /\ pc = "idle"
    /\ CallCount < MaxCalls
    /\ IsSome(GetNode(ThePathfinder, src))
    /\ SetPathfinder(TestCoords(ThePathfinder, dest, src, cost_from_src))
    /\ op' = [name |-> "test_coords", calls |-> CallCount + 1, before |-> ThePathfinder,
              dest |-> dest, src |-> src, cost_from_src |-> cost_from_src]
    /\ UNCHANGED <<map, start, end, pc, result, reused>>

\* test_coords is called with a source that has no node: the panic of
\* unwrap_or_else.
TestCoordsPanic(dest, src, cost_from_src) ==
    /\ pc = "idle"
    /\ CallCount < MaxCalls
    /\ ~IsSome(GetNode(ThePathfinder, src))
    /\ pc' = "panicked"
    /\ op' = [name |-> "test_coords", calls |-> CallCount + 1, before |-> ThePathfinder,
              dest |-> dest, src |-> src, cost_from_src |-> cost_from_src]
    /\ UNCHANGED <<map, coords_to_search, searched_coords, path_map, start, end,
                   result, reused>>

NextPathfinder ==
    \/ \E coords \in NodeCoords, cost \in NodeCosts, from \in {None, Some(Origin)} :
            InsertNodeCall(coords, PathfindNode(Isize(cost), from))
    \/ GetNextCoordsCall
    \/ \E dest \in NodeCoords, src \in NodeCoords, cost \in StepCosts :
            \/ TestCoordsCall(dest, src, Isize(cost))
            \/ TestCoordsPanic(dest, src, Isize(cost))

SpecPathfinder == InitPathfinder /\ [][NextPathfinder]_vars

\* ------------------------------------------------- reference definitions --

\* The coordinates that hold a tile and are adjacent to a: the ones a chain
\* of adjacent stored tiles can enter from a.
StoredAdjacent(m, a) ==
    {AdjacentCoords(a)[i] : i \in 1..Len(AdjacentCoords(a))} \cap DOMAIN m

RECURSIVE ReachFrom(_, _)
\* The coordinates a chain of adjacent stored tiles leads to from a
\* coordinate of S (the coordinates of S included).
ReachFrom(m, S) ==
    LET N == S \cup UNION {StoredAdjacent(m, a) : a \in S}
    IN  IF N = S THEN S ELSE ReachFrom(m, N)

Reachable(m, s, e) == e \in ReachFrom(m, {s})

Unreached == 0 - 1

Least(S) == CHOOSE x \in S : \A y \in S : x <= y

\* One round of relaxation of the least sums D (Unreached: no chain yet).
RelaxRound(m, D) ==
    [c \in DOMAIN D |->
        LET via == {D[a] + PathfindCost(m[c]) :
                        a \in {b \in DOMAIN D : D[b] # Unreached /\ c \in StoredAdjacent(m, b)}}
            all == via \cup (IF D[c] = Unreached THEN {} ELSE {D[c]})
        IN  IF all = {} THEN Unreached ELSE Least(all)]

RECURSIVE RelaxAll(_, _)
RelaxAll(m, D) ==
    LET N == RelaxRound(m, D)
    IN  IF N = D THEN D ELSE RelaxAll(m, N)

\* MinCost(m, s)[c]: the least sum of the costs of the tiles entered over
\* all chains of adjacent stored tiles from s to c (Unreached if none).
MinCost(m, s) ==
    RelaxAll(m, [c \in DOMAIN m \cup {s} |-> IF c = s THEN 0 ELSE Unreached])

RECURSIVE HopsFrom(_, _, _, _)
\* S holds the coordinates that chains of at most n tiles lead to.
HopsFrom(m, S, e, n) ==
    LET N == S \cup UNION {StoredAdjacent(m, a) : a \in S}
    IN  IF e \in S THEN n
        ELSE IF N = S THEN Unreached
        ELSE HopsFrom(m, N, e, n + 1)

\* The least number of tiles entered over all chains of adjacent stored
\* tiles from s to e (Unreached if none).
MinHops(m, s, e) == HopsFrom(m, {s}, e, 0)

RECURSIVE SumEntered(_, _, _, _)
\* The sum of the costs of the coordinates of path from index i on, the
\* start s not counted.
SumEntered(m, path, s, i) ==
    IF i > Len(path) THEN 0
    ELSE (IF path[i] = s THEN 0 ELSE PathfindCost(m[path[i]]))
            + SumEntered(m, path, s, i + 1)

EnteredCost(m, path, s) == SumEntered(m, path, s, 1)

Returned == pc = "done" /\ IsSome(result)

\* The call of find_path is over: it has returned, has panicked, or is in
\* a loop it never leaves.
CallOver == pc \in {"done", "panicked", "looping"}

ReturnedPath == Unwrap(result)

IsAdjacent(a, b) ==
    \/ \E i \in 1..Len(AdjacentCoords(a)) : AdjacentCoords(a)[i] = b
    \/ \E i \in 1..Len(AdjacentCoords(b)) : AdjacentCoords(b)[i] = a

\* ----------------------------------------------------------------- claims --

\* C1: whenever find_path returns a path, the sum of the pathfind_cost of
\* the tiles it enters (every coordinate but the start) is the least such
\* sum over all chains of adjacent stored tiles from start to end.
C1_Optimal ==
    Returned =>
        EnteredCost(map, ReturnedPath, start) = MinCost(map, start)[end]

\* C2: whenever find_path returns Some(path), the first element of path is
\* start and its last element is end.
C2_StartFirstEndLast ==
    Returned =>
        /\ ReturnedPath[1] = start
        /\ ReturnedPath[Len(ReturnedPath)] = end

\* C3: when no chain of adjacent stored tiles leads from start to end and
\* start # end, the call of find_path ends by returning None; and None is
\* returned only with coords_to_search empty and the end never selected.
\* (A chain is the coordinates entered after start; start itself need not
\* hold a tile.)
C3_UnreachableIsNone ==
    CallOver =>
        /\ (start # end /\ ~Reachable(map, start, end)) =>
                (pc = "done" /\ result = None)
        /\ (pc = "done" /\ result = None) =>
                (coords_to_search = {} /\ end \notin searched_coords)

\* C4: when the end holds a tile and a chain of adjacent stored tiles leads
\* from start to it, the call of find_path ends by returning Some(path),
\* never None.
C4_ReachableIsSome ==
    (CallOver /\ end \in DOMAIN map /\ Reachable(map, start, end)) =>
        (pc = "done" /\ IsSome(result))

\* C5: find_path(grid, X, X) returns Some([X]) on every grid, and has then
\* visited no adjacent coordinate: X is the only node and the only searched
\* coordinate.
C5_TrivialPath ==
    (pc = "done" /\ start = end) =>
        /\ result = Some(<< start >>)
        /\ DOMAIN path_map = {start}
        /\ searched_coords = {start}
        /\ coords_to_search = {}

\* find_path(grid, X, X) has returned where X holds no tile but a
\* coordinate adjacent to X does.
C5_Witness ==
    /\ pc = "done"
    /\ start = end
    /\ start \notin DOMAIN map
    /\ StoredAdjacent(map, start) # {}
    /\ result = Some(<< start >>)

UnitCosts(m) == \A c \in DOMAIN m : PathfindCost(m[c]) = 1

SetOf(seq) == {seq[i] : i \in 1..Len(seq)}

\* C6: on a grid whose tiles all cost 1 a returned path has (least number
\* of hops from start to end through stored tiles) + 1 coordinates; on the
\* 19-tile map of radius 2, find_path((-2,1), (1,-1)) returns 4 coordinates,
\* (-2,1) and (1,-1) among them.
C6_UnitCostHops ==
    /\ (Returned /\ UnitCosts(map)) =>
            Len(ReturnedPath) = MinHops(map, start, end) + 1
    /\ (pc = "done" /\ map = EqualCostMap) =>
            /\ IsSome(result)
            /\ Len(ReturnedPath) = 4
            /\ {EqualCostStart, EqualCostEnd} \subseteq SetOf(ReturnedPath)

\* The call of the test equal_cost has returned its 4 coordinates.
C6_Witness ==
    /\ Returned
    /\ map = EqualCostMap
    /\ start = EqualCostStart
    /\ end = EqualCostEnd
    /\ Len(ReturnedPath) = 4

\* C7: on the map of radius 3 of ground tiles with the 9 road tiles,
\* find_path prefers the cheaper route along the road although it has more
\* hops than the direct route: a call from one road tile to a later one,
\* where the road between them is the cheapest route, returns exactly the
\* road tiles from the one to the other (for find_path((-2,2), (2,-2)) the
\* 9 road tiles).
C7_FollowsRoad ==
    (pc = "done" /\ map = VariableCostMap) =>
        \A i, j \in 1..Len(RoadCoords) :
            (/\ start = RoadCoords[i]
             /\ end = RoadCoords[j]
             /\ i < j
             /\ MinCost(map, start)[end] = j - i) =>
                /\ IsSome(result)
                /\ Len(ReturnedPath) = j - i + 1
                /\ SetOf(ReturnedPath) = {RoadCoords[k] : k \in i..j}

\* C8: a node created or relaxed from the selected coordinate S for the
\* adjacent coordinate B holds S.total_cost + (pathfind_cost of B's tile):
\* every node with a predecessor costs its predecessor's total_cost plus
\* the cost of its own tile.
C8_EdgeCost ==
    \A b \in DOMAIN path_map :
        IsSome(path_map[b].from_coords) =>
            path_map[b].total_cost =
                IsizeAdd(path_map[Unwrap(path_map[b].from_coords)].total_cost,
                         Isize(PathfindCost(map[b])))

\* C9: the total_cost of every selected coordinate (every member of
\* searched_coords) is the least accumulated cost from start to it, 0 for
\* the start.
C9_SettledCost ==
    \A c \in searched_coords :
        path_map[c].total_cost = Isize(MinCost(map, start)[c])

\* C10: in a returned path consecutive coordinates are adjacent, no
\* coordinate occurs twice, and every coordinate but the start holds a tile.
C10_PathValid ==
    Returned =>
        /\ \A i \in 1..(Len(ReturnedPath) - 1) :
                IsAdjacent(ReturnedPath[i], ReturnedPath[i + 1])
        /\ \A i, j \in 1..Len(ReturnedPath) :
                ReturnedPath[i] = ReturnedPath[j] => i = j
        /\ \A i \in 1..Len(ReturnedPath) :
                ReturnedPath[i] # start => ReturnedPath[i] \in DOMAIN map

\* A path of three or more coordinates was returned from a start that
\* holds no tile.
C10_Witness ==
    /\ Returned
    /\ Len(ReturnedPath) >= 3
    /\ start \notin DOMAIN map

\* C12: when start holds no tile, find_path still seeds start with
\* total_cost 0 and visits its adjacent coordinates; start is never given a
\* predecessor; and when a chain of adjacent stored tiles leads from a
\* stored coordinate adjacent to start to the end, the call returns
\* Some(path) with start in path.
C12_OffMapStart ==
    (pc # "idle" /\ start \notin DOMAIN map) =>
        /\ path_map[start] = PathfindNode(Isize(0), None)
        /\ (start \in searched_coords /\ start # end) =>
                StoredAdjacent(map, start) \subseteq DOMAIN path_map
        /\ (CallOver /\ \E n \in StoredAdjacent(map, start) : Reachable(map, n, end)) =>
                /\ Returned
                /\ start \in SetOf(ReturnedPath)

\* C13: for a fixed grid, start and end, every iteration order of
\* coords_to_search gives the same outcome as every other: Some or None
\* alike, and for Some the same two endpoints, the same number of
\* coordinates and the same total cost of the tiles entered.
C13_TieBreakIndependent ==
    pc = "done" =>
        \A other \in FindPathResults(map, start, end) :
            /\ IsSome(result) = IsSome(other)
            /\ IsSome(result) =>
                    /\ ReturnedPath[1] = Unwrap(other)[1]
                    /\ ReturnedPath[Len(ReturnedPath)] = Unwrap(other)[Len(Unwrap(other))]
                    /\ Len(ReturnedPath) = Len(Unwrap(other))
                    /\ EnteredCost(map, ReturnedPath, start) =
                            EnteredCost(map, Unwrap(other), start)

\* Every coordinate that find_path, get_next_coords, test_coords and
\* current_path_from look up in the node map has a node: the coordinates of
\* coords_to_search and searched_coords (the sources passed to test_coords
\* are among them) and every predecessor.
NodesPresent ==
    /\ coords_to_search \subseteq DOMAIN path_map
    /\ searched_coords \subseteq DOMAIN path_map
    /\ \A c \in DOMAIN path_map :
            IsSome(path_map[c].from_coords) =>
                Unwrap(path_map[c].from_coords) \in DOMAIN path_map

\* C14: during a find_path call no unwrap() meets a missing node and no
\* panic is reachable; the call ends only by returning Some(path) or None.
C14_NoAbnormalTermination ==
    /\ NodesPresent
    /\ pc # "panicked"
    /\ CallOver => pc = "done"

\* Coordinates around the cells, the cells included.
Probes == SetOf(AreaTiles(Origin, 2))

\* C15: after insert_tile(c, t), get_tile(c) is Some(t) and
\* contains_coords(c) holds; insert_tile returns the tile stored at c before
\* (None if there was none); len() has grown by one exactly when c was
\* absent; get_tile at every other coordinate is what it was; and get_tile
\* is None at every coordinate never inserted.
C15_StoreSemantics ==
    /\ op = NoCall => \A d \in Probes : GetTile(map, d) = None
    /\ \A d \in Probes \ Cells : GetTile(map, d) = None /\ ~ContainsCoords(map, d)
    /\ op.name = "insert_tile" =>
        /\ GetTile(map, op.coord) = Some(op.tile)
        /\ ContainsCoords(map, op.coord)
        /\ op.returned =
                (IF op.coord \in DOMAIN op.before THEN Some(op.before[op.coord]) ELSE None)
        /\ MapLen(map) =
                MapLen(op.before) + (IF op.coord \in DOMAIN op.before THEN 0 ELSE 1)
        /\ \A d \in Probes \ {op.coord} : GetTile(map, d) = GetTile(op.before, d)

\* insert_tile has replaced a tile by a different one on a map that holds
\* other tiles too.
C15_Witness ==
    /\ op.name = "insert_tile"
    /\ op.returned # None
    /\ op.returned # Some(op.tile)
    /\ GetTile(map, op.coord) = Some(op.tile)
    /\ MapLen(map) >= 3

\* The call op has been made; op.returned is what it returned.
Called(name) == op.name = name /\ "returned" \in DOMAIN op

Distinct(seq) == \A i, j \in 1..Len(seq) : seq[i] = seq[j] => i = j

\* The axial coordinates whose components differ from those of c by at most
\* n.
Around(c, n) == {AxialCoords(c.q + dq, c.r + dr) : dq \in (0 - n)..n, dr \in (0 - n)..n}

\* C16: area_tiles(r), r >= 0, returns 1 + 3r(r+1) pairwise distinct
\* coordinates, the coordinates at distance <= r from the center; init_area
\* on an empty HexMap gives len 1, 7, 19 for r = 0, 1, 2; and init_area again
\* around the same center with a larger radius r gives len 1 + 3r(r+1): no
\* coordinate is stored twice.
C16_AreaSize ==
    /\ Called("area_tiles") =>
        /\ Len(op.returned) = 1 + 3 * op.radius * (op.radius + 1)
        /\ Distinct(op.returned)
        /\ SetOf(op.returned) =
                {c \in Around(op.coords, op.radius + 1) :
                    Distance(op.coords, c) <= op.radius}
    /\ (op.name = "init_area" /\ op.radius >= 0) =>
        /\ MapLen(op.after) = 1 + 3 * op.radius * (op.radius + 1)
        /\ DOMAIN op.after = SetOf(AreaTiles(op.coords, op.radius))
        /\ (op.before = NewTileMap /\ op.radius = 0) => MapLen(op.after) = 1
        /\ (op.before = NewTileMap /\ op.radius = 1) => MapLen(op.after) = 7
        /\ (op.before = NewTileMap /\ op.radius = 2) => MapLen(op.after) = 19

\* init_area has been called with radius 2 on a HexMap that an init_area
\* around the same center had filled before, away from the origin.
C16_Witness ==
    /\ op.name = "init_area"
    /\ op.radius = 2
    /\ op.before # NewTileMap
    /\ op.coords # Origin
    /\ MapLen(op.after) = 19

\* C17: ring_tiles(r) around c returns 6r pairwise distinct coordinates,
\* each at distance r from c, when r > 0; [c] when r = 0; the empty list
\* when r < 0.
C17_RingShape ==
    Called("ring_tiles") =>
        /\ op.radius > 0 =>
            /\ Len(op.returned) = 6 * op.radius
            /\ Distinct(op.returned)
            /\ \A i \in 1..Len(op.returned) :
                    Distance(op.coords, op.returned[i]) = op.radius
        /\ op.radius = 0 => op.returned = << op.coords >>
        /\ op.radius < 0 => op.returned = << >>

\* ring_tiles has returned the 18 coordinates of a ring of radius 3 around
\* a center away from the origin.
C17_Witness ==
    /\ Called("ring_tiles")
    /\ op.radius = 3
    /\ op.coords # Origin
    /\ Len(op.returned) = 18

\* C18: adjacent_coords(c) returns 6 pairwise distinct coordinates in the
\* hex systems (axial, cube, offset, doubled) and 8 in SquareCoords, never c
\* itself; in axial, cube and square, c is among the adjacent coordinates of
\* each of them.
C18_NeighbourSets ==
    Called("adjacent_coords") =>
        /\ Len(op.returned) = (IF op.system = "square" THEN 8 ELSE 6)
        /\ Distinct(op.returned)
        /\ op.coords \notin SetOf(op.returned)
        /\ op.system \in {"axial", "cube", "square"} =>
                \A i \in 1..Len(op.returned) :
                    op.coords \in SetOf(AdjacentOf(op.system, op.returned[i]))

\* adjacent_coords has returned the 8 neighbours of a square coordinate
\* with negative components.
C18_Witness ==
    /\ Called("adjacent_coords")
    /\ op.system = "square"
    /\ op.coords.x < 0
    /\ op.coords.y < 0
    /\ Len(op.returned) = 8

RECURSIVE JumpsFrom(_, _, _, _, _)
\* frontier holds the coordinates n jumps from the source, seen the nearer
\* ones.
JumpsFrom(system, seen, frontier, b, n) ==
    IF b \in frontier THEN n
    ELSE JumpsFrom(system, seen \cup frontier,
                   UNION {SetOf(AdjacentOf(system, c)) : c \in frontier}
                        \ (seen \cup frontier),
                   b, n + 1)

\* The least number of adjacent_coords() jumps that lead from a to b.
MinJumps(system, a, b) == JumpsFrom(system, {}, {a}, b, 0)

\* The cube coordinates of a coordinate of the system.
AsCube(system, c) == IF system = "axial" THEN CubeFromAxial(c) ELSE c

\* C19: a.distance(b) is (|dq| + |dr| + |ds|) / 2, the least number of
\* adjacent_coords() jumps from a to b; it is symmetric, 0 exactly when
\* a = b, 1 exactly when b is adjacent to a, and the axial result is the
\* cube result of the converted coordinates.
C19_TileDistance ==
    Called("distance") =>
        LET a == AsCube(op.system, op.coords)
            b == AsCube(op.system, op.other)
        IN  /\ 2 * op.returned = Abs(a.q - b.q) + Abs(a.r - b.r) + Abs(a.s - b.s)
            /\ op.returned = MinJumps(op.system, op.coords, op.other)
            /\ op.returned = DistanceOf(op.system, op.other, op.coords)
            /\ (op.returned = 0) = (op.coords = op.other)
            /\ (op.returned = 1) =
                    (op.other \in SetOf(AdjacentOf(op.system, op.coords)))
            /\ op.returned = CubeDistance(a, b)

\* distance has returned 3 or more for two axial coordinates.
C19_Witness ==
    /\ Called("distance")
    /\ op.system = "axial"
    /\ op.returned >= 3
    /\ op.coords.r < 0

\* C20: OffsetCoords -> AxialCoords -> OffsetCoords and AxialCoords ->
\* OffsetCoords -> AxialCoords return the original, negative and odd rows
\* included; q_axial = q_off - (r - (r & 1))/2, q_off = q_axial +
\* (r - (r & 1))/2, r unchanged ((r - (r & 1))/2 is r halved and rounded
\* down).
C20_OffsetRoundTrip ==
    (Called("from") /\ "offset" \in {op.system, op.to}) =>
        /\ op.returned.r = op.coords.r
        /\ op.to = "axial" =>
            /\ op.returned.q = op.coords.q - (op.coords.r \div 2)
            /\ OffsetFromAxial(op.returned) = op.coords
        /\ op.to = "offset" =>
            /\ op.returned.q = op.coords.q + (op.coords.r \div 2)
            /\ AxialFromOffset(op.returned) = op.coords

\* An offset coordinate of a negative odd row has been converted.
C20_Witness ==
    /\ Called("from")
    /\ op.system = "offset"
    /\ op.to = "axial"
    /\ op.coords.r = 0 - 1
    /\ op.returned.q = op.coords.q + 1

\* C21: for every axial coordinate a, CubeCoords::from(a) is_valid() (q + r
\* + s = 0) and converted back gives a; for every valid cube coordinate c,
\* AxialCoords::from(c) converted back to cube gives c; and every
\* adjacent_coords() of a valid cube coordinate and the difference of two
\* valid cube coordinates are valid.
C21_AxialCubeRoundTrip ==
    /\ (Called("from") /\ op.system = "axial" /\ op.to = "cube") =>
        /\ IsValid(op.returned)
        /\ op.returned.q + op.returned.r + op.returned.s = 0
        /\ AxialFromCube(op.returned) = op.coords
    /\ (Called("from") /\ op.system = "cube" /\ op.to = "axial" /\ IsValid(op.coords)) =>
        CubeFromAxial(op.returned) = op.coords
    /\ (Called("adjacent_coords") /\ op.system = "cube" /\ IsValid(op.coords)) =>
        \A i \in 1..Len(op.returned) : IsValid(op.returned[i])
    /\ (Called("sub") /\ IsValid(op.coords) /\ IsValid(op.other)) =>
        IsValid(op.returned)

\* An axial coordinate with two negative components has been converted to a
\* cube coordinate with s > 0.
C21_Witness ==
    /\ Called("from")
    /\ op.system = "axial"
    /\ op.to = "cube"
    /\ op.coords.q < 0
    /\ op.coords.r < 0
    /\ op.returned.s > 0

\* C11: every find_path call starts from coords_to_search = {start},
\* searched_coords empty and a node map that holds only start with
\* total_cost 0 and no predecessor, whatever the previous calls left; and
\* every call, on a Pathfinder that has run calls before (ended by Some or
\* by None) or not, returns what a newly constructed Pathfinder can return
\* for the same grid, start and end.
C11_ReuseIsFresh ==
    /\ [][(pc \in {"idle", "done"} /\ pc' = "searching") =>
            /\ coords_to_search' = {start'}
            /\ searched_coords' = {}
            /\ DOMAIN path_map' = {start'}
            /\ path_map'[start'] = PathfindNode(Isize(0), None)]_vars
    /\ [](pc = "done" => result \in FindPathResults(map, start, end))

\* A call made on a Pathfinder that had run a call before has returned a
\* path.
C11_Witness ==
    /\ reused
    /\ Returned
    /\ Len(ReturnedPath) >= 3

\* path starts with coords, each next element is the from_coords of the
\* element before it, and the last element is the start, whose node has no
\* from_coords.
FollowsLinks(path, coords) ==
    /\ Len(path) >= 1
    /\ path[1] = coords
    /\ \A i \in 1..(Len(path) - 1) : path_map[path[i]].from_coords = Some(path[i + 1])
    /\ path_map[path[Len(path)]].from_coords = None
    /\ path[Len(path)] = start

\* C22: current_path_from(coords) returns, in destination-to-source order,
\* the coordinates of the from_coords links followed from coords: index 0 is
\* coords, each next element is the from_coords of the one before, the last
\* element is the node without from_coords (the start); for the start it
\* returns [start].  (find_path calls it with the end; the call never being
\* over is pc = "looping".)
C22_PathFromOrder ==
    /\ pc # "looping"
    /\ Returned =>
        /\ FollowsLinks(ReturnedPath, end)
        /\ end = start => ReturnedPath = << start >>

\* C23: get_next_coords on an empty coords_to_search returns None and
\* changes nothing; otherwise it returns a coordinate of coords_to_search
\* whose total_cost is <= that of every other one, removes exactly it from
\* coords_to_search and inserts it into searched_coords; the membership of
\* all other coordinates and the whole node map stay as they were.
C23_GetNextCoords ==
    Called("get_next_coords") =>
        LET before == op.before
        IN  /\ before.coords_to_search = {} =>
                /\ op.returned = None
                /\ ThePathfinder = before
            /\ before.coords_to_search # {} =>
                /\ IsSome(op.returned)
                /\ Unwrap(op.returned) \in before.coords_to_search
                /\ \A d \in before.coords_to_search :
                        ~IsizeLess(before.path_map[d].total_cost,
                                   before.path_map[Unwrap(op.returned)].total_cost)
                /\ coords_to_search = before.coords_to_search \ {Unwrap(op.returned)}
                /\ searched_coords = before.searched_coords \cup {Unwrap(op.returned)}
                /\ path_map = before.path_map

\* get_next_coords has returned the cheaper of two coordinates while a
\* third one was in searched_coords already.
C23_Witness ==
    /\ Called("get_next_coords")
    /\ Cardinality(op.before.coords_to_search) = 2
    /\ Cardinality(op.before.searched_coords) = 1
    /\ IsSome(op.returned)
    /\ \E d \in coords_to_search :
            IsizeLess(path_map[Unwrap(op.returned)].total_cost, path_map[d].total_cost)

\* C24: test_coords(dest, src, cost_from_src), with candidate =
\* src.total_cost + cost_from_src: when dest has no node, a node (candidate,
\* src) is created and dest is added to coords_to_search; when dest has a
\* node and candidate < its total_cost, total_cost and from_coords become
\* candidate and src; when candidate >= its total_cost the node stays as
\* it is; in the last two cases the set membership of dest does not change.
\* (Every other node and searched_coords stay as they were.)
C24_TestCoords ==
    (op.name = "test_coords" /\ pc # "panicked") =>
        LET before == op.before
            dest == op.dest
            candidate == IsizeAdd(before.path_map[op.src].total_cost, op.cost_from_src)
        IN  /\ dest \notin DOMAIN before.path_map =>
                /\ path_map[dest] = PathfindNode(candidate, Some(op.src))
                /\ coords_to_search = before.coords_to_search \cup {dest}
            /\ (dest \in DOMAIN before.path_map
                    /\ IsizeLess(candidate, before.path_map[dest].total_cost)) =>
                /\ path_map[dest] = PathfindNode(candidate, Some(op.src))
                /\ coords_to_search = before.coords_to_search
            /\ (dest \in DOMAIN before.path_map
                    /\ ~IsizeLess(candidate, before.path_map[dest].total_cost)) =>
                /\ path_map[dest] = before.path_map[dest]
                /\ coords_to_search = before.coords_to_search
            /\ searched_coords = before.searched_coords
            /\ DOMAIN path_map = DOMAIN before.path_map \cup {dest}
            /\ \A c \in DOMAIN before.path_map \ {dest} : path_map[c] = before.path_map[c]

\* The second of two calls of test_coords has overwritten, with a cheaper
\* candidate, a node that does not come from the origin.
C24_Witness ==
    /\ op.name = "test_coords"
    /\ pc # "panicked"
    /\ op.calls = 2
    /\ op.dest \in DOMAIN op.before.path_map
    /\ op.dest \in coords_to_search
    /\ op.before.path_map[op.dest].from_coords \notin {None, Some(Origin)}
    /\ path_map[op.dest] # op.before.path_map[op.dest]
    /\ path_map[op.dest].from_coords = Some(op.src)
    /\ op.src # Origin

\* C25: find_path terminates on every finite grid: during a call a
\* coordinate enters coords_to_search only when it has no node yet (at most
\* once) and is selected only from coords_to_search, which it then leaves
\* for good (at most once), so that after at most (stored tiles + 1)
\* iterations the call is over, and it is over only by returning Some or
\* None (pc = "done"), never by a panic or in a loop it does not leave.
C25_Terminates ==
    /\ [][(pc = "searching" /\ pc' # "idle") =>
            /\ (coords_to_search' \ coords_to_search) \cap DOMAIN path_map = {}
            /\ (searched_coords' \ searched_coords) \subseteq coords_to_search
            /\ searched_coords \subseteq searched_coords'
            /\ searched_coords' \cap coords_to_search' = {}
            /\ Cardinality(searched_coords') <= MapLen(map) + 1]_vars
    /\ [](CallOver => pc = "done")

\* C26: during a find_path call a coordinate that has been moved to
\* searched_coords is never put back into coords_to_search, and the
\* total_cost and from_coords of its node never change again for the rest of
\* the call.
C26_FinalizedSettled ==
    [][pc = "searching" =>
        \A c \in searched_coords :
            /\ c \in searched_coords'
            /\ c \notin coords_to_search'
            /\ path_map'[c] = path_map[c]]_vars

\* C27: in every state reached during a find_path call, coords_to_search
\* and searched_coords are disjoint, their union is the key set of the node
\* map, start is a key, and every key other than start has a tile in the
\* grid; and no step of a call removes a node.
C27_SetInvariant ==
    /\ [](pc # "idle" =>
            /\ coords_to_search \cap searched_coords = {}
            /\ coords_to_search \cup searched_coords = DOMAIN path_map
            /\ start \in DOMAIN path_map
            /\ DOMAIN path_map \ {start} \subseteq DOMAIN map)
    /\ [][pc = "searching" => DOMAIN path_map \subseteq DOMAIN path_map']_vars

\* A call from a start without a tile is running with coordinates in both
\* sets.
C27_Witness ==
    /\ pc = "searching"
    /\ start \notin DOMAIN map
    /\ Cardinality(searched_coords) >= 2
    /\ Cardinality(coords_to_search) >= 2

\* C28: in every state reached during a find_path call, start is the only
\* node with from_coords = None; the from_coords of every other node names a
\* coordinate that is in searched_coords, that the node's coordinate is
\* adjacent to, and whose total_cost is strictly smaller; and following
\* from_coords from any node reaches start without repeating a coordinate.
C28_PredecessorTree ==
    pc # "idle" =>
        /\ path_map[start].from_coords = None
        /\ \A c \in DOMAIN path_map \ {start} :
            /\ IsSome(path_map[c].from_coords)
            /\ Unwrap(path_map[c].from_coords) \in searched_coords
            /\ c \in SetOf(AdjacentCoords(Unwrap(path_map[c].from_coords)))
            /\ IsizeLess(path_map[Unwrap(path_map[c].from_coords)].total_cost,
                         path_map[c].total_cost)
        /\ \A c \in DOMAIN path_map :
            /\ ~PathNeverEnds(ThePathfinder, c)
            /\ Distinct(CurrentPathFrom(ThePathfinder, c))
            /\ CurrentPathFrom(ThePathfinder, c)[Len(CurrentPathFrom(ThePathfinder, c))] = start

\* The width of isize on the 64-bit targets that Isize models.
IsizeBits == 64

RECURSIVE HopLayers(_, _, _, _)
\* hops gives the least number of tiles entered on a chain of adjacent stored
\* tiles from the start for the coordinates fewer than n away, frontier holds
\* the coordinates n away.
HopLayers(m, hops, frontier, n) ==
    IF frontier = {} THEN hops
    ELSE HopLayers(m, hops @@ [c \in frontier |-> n],
                   UNION {StoredAdjacent(m, a) : a \in frontier}
                        \ (DOMAIN hops \cup frontier),
                   n + 1)

\* The least number of tiles entered from s, for every coordinate that a
\* chain of adjacent stored tiles leads to from s (s itself: 0).
HopMap(m, s) == HopLayers(m, << >>, {s}, 0)

\* The number of the lowest bits of limb i (1 .. 4) that are among the d
\* lowest bits of an isize.
LowBits(d, i) ==
    IF d <= 16 * (i - 1) THEN 0
    ELSE IF d >= 16 * i THEN 16
    ELSE d - 16 * (i - 1)

\* 2^d - 1 modulo 2^64: the isize whose d lowest bits are set.
GrowthCost(d) == [i \in 1..4 |-> 2 ^ LowBits(d, i) - 1]

\* 2^d - 1 is within the range of isize: it has no more than 64 bits and
\* its sign bit is clear.
GrowthInRange(d) == d <= IsizeBits /\ ~IsNegative(GrowthCost(d))

\* The largest hop distance whose cost is within the range of isize, as the
\* claim gives it (d < 63) and as the arithmetic gives it (2^63 - 1 is
\* isize::MAX).
ClaimedLastHop == IsizeBits - 2

LastHop == IsizeBits - 1

\* The same on a target with a 32-bit isize.
LastHop32 == IsizeBits \div 2 - 1

\* The non-negative isize a is within the range of a 32-bit isize.
FitsIn32(a) == a[4] = 0 /\ a[3] = 0 /\ a[2] < LimbBase \div 2

\* No sum of the call has wrapped: no node holds a negative total_cost.
NothingWrapped == \A n \in DOMAIN path_map : ~IsNegative(path_map[n].total_cost)

\* C29 as the claim states it: the total_cost stored for a coordinate at
\* minimum hop distance d from start is 2^d - 1, whatever the tiles cost,
\* and it is within the range of isize only while d < 63.
C29_CostGrowth ==
    pc # "idle" =>
        \A hops \in {HopMap(map, start)} :
            \A c \in DOMAIN path_map :
                (hops[c] <= ClaimedLastHop) <=>
                    /\ GrowthInRange(hops[c])
                    /\ path_map[c].total_cost = GrowthCost(hops[c])

\* C29, amended: as long as no sum of the call has wrapped, the total_cost
\* stored for a coordinate at minimum hop distance d from start is 2^d - 1,
\* whatever the tiles cost, and it is within the range of isize while
\* d <= 63 (2^63 - 1 is isize::MAX); a node is stored for no larger d before
\* a sum wraps (or the thread panics).  On a 32-bit isize 2^d - 1 is in
\* range while d <= 31.
C29_CostGrowthInRange ==
    /\ (pc # "idle" /\ NothingWrapped) =>
            \A hops \in {HopMap(map, start)} :
                \A c \in DOMAIN path_map :
                    /\ hops[c] <= LastHop
                    /\ path_map[c].total_cost = GrowthCost(hops[c])
    /\ \A d \in 0..CorridorLen : GrowthInRange(d) <=> d <= LastHop
    /\ \A d \in 0..LastHop : FitsIn32(GrowthCost(d)) <=> d <= LastHop32

\* A node at hop distance 63 holds isize::MAX.
C29_Witness ==
    /\ pc = "searching"
    /\ NothingWrapped
    /\ \E hops \in {HopMap(map, start)}, c \in DOMAIN path_map :
            /\ hops[c] = LastHop
            /\ path_map[c].total_cost = GrowthCost(LastHop)
            /\ path_map[c].total_cost =
                    << LimbBase - 1, LimbBase - 1, LimbBase - 1, LimbBase \div 2 - 1 >>

\* C30: for every OffsetCoords c, on even and on odd rows, the set
\* adjacent_coords(c) is the set obtained by converting c to axial, taking
\* the axial adjacent_coords and converting each back to offset; and offset
\* adjacency is symmetric: c is adjacent to each of its adjacent
\* coordinates.
C30_OffsetAdjacency ==
    (Called("adjacent_coords") /\ op.system = "offset") =>
        /\ SetOf(op.returned) =
                {OffsetFromAxial(a) : a \in SetOf(AdjacentCoords(AxialFromOffset(op.coords)))}
        /\ \A i \in 1..Len(op.returned) :
                op.coords \in SetOf(OffsetAdjacentCoords(op.returned[i]))

TypeOK ==
    /\ pc \in {"idle", "searching", "done", "panicked", "looping"}
    /\ reused \in BOOLEAN
    /\ coords_to_search \subseteq DOMAIN path_map
    /\ searched_coords \subseteq DOMAIN path_map

====
